---- MODULE Spec2Model ----
(***************************************************************************)
(* Verification model of nsafar1/VBM-Freesurfer.                           *)
(*                                                                         *)
(*   vbm-mind.py                   get_KL, calculate_mind_network          *)
(*   unnamed/part_000              extract_voxel_distributions,            *)
(*                                 compute_kl_divergence, main             *)
(*   VBM-to-FreeSurfer-Transform.py  process_subjects                      *)
(*                                                                         *)
(* Numbers.  Real values are exact rationals <<num, den>> in lowest terms  *)
(* with den > 0.  Natural logarithms of positive integers are taken from   *)
(* LnMicro, a fixed-point table in units of 10^-6 that is additive over    *)
(* prime factors, so that a sum of logarithms is exactly zero in the model *)
(* precisely when it is zero over the reals.  Euclidean distances are      *)
(* carried as their squares (integers on the integer grid of PointTable)   *)
(* and log(r/s) is computed as (ln r^2 - ln s^2)/2.  Rounding of IEEE      *)
(* binary64 arithmetic is not modelled.                                    *)
(***************************************************************************)
EXTENDS Integers, Sequences, FiniteSets, TLC

VARIABLES
    \* ---- vbm-mind.py: calculate_mind_network ----
    region_list,    \* the region_list argument: a sequence of distinct labels
    feature_cols,   \* the feature_cols argument: a sequence of column numbers
    data_df,        \* data_df grouped by 'Label': label -> sequence of rows
    kdtrees,        \* the kdtrees dict: label -> points of the tree
    mind,           \* the mind DataFrame: <<row label, column label>> -> value
    pairs,          \* the list the for statement of line 73 iterates over
    idx,            \* position of the next element of pairs
    visited,        \* history: one record per completed loop body
    mpc             \* control: "idle", "start", "loop", "returned", "raised"

mindVars == <<region_list, feature_cols, data_df, kdtrees, mind, pairs, idx, visited, mpc>>

VARIABLES
    \* ---- unnamed/part_000: main, compute_kl_divergence ----
    caller,             \* who called compute_kl_divergence: "main" or "direct"
    sidx,               \* main: position in common_subjects of the current subject
    all_distributions,  \* the distributions dict, in insertion order: <<name, sample>>
    big_dist,           \* main: the pooled voxel values of the current subject
    bin_edges_big,      \* the bin edges passed to compute_kl_divergence
    edges_computed,     \* history: evaluations of line 132 for the current subject
    region_pairs,       \* the pairs combinations(region_names, 2) yields
    kidx,               \* position of the next element of region_pairs
    kl_records,         \* the rows written for the current subject, in order
    upc                 \* control: "idle", "subject", "extracted", "edges",
                        \*          "kl_start", "kl_loop", "done"

uniVars == <<caller, sidx, all_distributions, big_dist, bin_edges_big, edges_computed,
             region_pairs, kidx, kl_records, upc>>

VARIABLES
    \* ---- VBM-to-FreeSurfer-Transform.py: process_subjects ----
    cat12_exists,   \* per entry of matching_subjects: os.path.exists(cat12_gm)
    fsdir_exists,   \* per entry: os.path.exists(<subjects_dir>/<freesurfer_id>)
    tidx,           \* position in matching_subjects of the current entry
    tpc,            \* control: "idle", "top", "vol2vol", "done"
    calls,          \* history: the subprocess.run calls, in order
    visits,         \* history: per entry, how often the loop body began for it
    outcome         \* history: per entry, how its loop body ended

transVars == <<cat12_exists, fsdir_exists, tidx, tpc, calls, visits, outcome>>

vars == <<mindVars, uniVars, transVars>>

----------------------------------------------------------------------------
(* Bounds *)

\* Largest number of rows data_df holds for one label.
MaxRows == 2

\* Number of entries of matching_subjects.
NumMatching == 3

\* Number of subjects in common_subjects.
NumSubjects == 2

\* Largest number of voxels of one segmentation image.
MaxVoxels == 2

\* Region labels occurring in data_df.
Labels == {1, 2, 3}

\* The rows a data_df may hold: points of the integer grid, two feature columns.
PointTable == << <<0, 0>>, <<1, 0>>, <<3, 1>> >>

\* The feature_cols arguments tried: the first column (d = 1), or both (d = 2).
FeatureColsChoices == { <<1>>, <<1, 2>> }

----------------------------------------------------------------------------
(* Sequences and rationals *)

Range(s) == { s[i] : i \in DOMAIN s }

RECURSIVE SumSeq(_)
SumSeq(s) == IF s = <<>> THEN 0 ELSE s[1] + SumSeq(Tail(s))

Abs(n) == IF n < 0 THEN 0 - n ELSE n

RECURSIVE GCD(_, _)
GCD(a, b) == IF b = 0 THEN a ELSE GCD(b, a % b)

\* n/d in lowest terms, d > 0.
Rat(n, d) ==
    LET g == GCD(Abs(n), d)
    IN  <<n \div g, d \div g>>

Zero == Rat(0, 1)

\* a + b over the least common denominator.
RatAdd(a, b) ==
    LET g == GCD(a[2], b[2])
    IN  Rat(a[1] * (b[2] \div g) + b[1] * (a[2] \div g), (a[2] \div g) * b[2])

IsNegative(a) == a[1] < 0

IsPositive(a) == a[1] > 0

\* a <= 1.
AtMostOne(a) == a[1] <= a[2]

\* Non-decreasing sequences over 1..n of length at most k: the multisets of
\* at most k elements of 1..n.
SortedSeqs(n, k) ==
    { s \in UNION { [1..len -> 1..n] : len \in 0..k } :
        \A i \in 1..(Len(s) - 1) : s[i] <= s[i + 1] }

\* Strictly increasing sequences over the set of integers S.  Every sequence
\* of distinct elements of S is one of these up to a renaming of the elements.
IncreasingSeqs(S) ==
    { s \in UNION { [1..len -> S] : len \in 0..Cardinality(S) } :
        \A i \in 1..(Len(s) - 1) : s[i] < s[i + 1] }

----------------------------------------------------------------------------
(* numpy.log on the values that occur *)

\* ln(p) * 10^6 for a prime p.
LnPrimeMicro(p) ==
    CASE p = 2 -> 693147
      [] p = 3 -> 1098612
      [] p = 5 -> 1609438
      [] p = 7 -> 1945910
      [] p = 11 -> 2397895
      [] p = 13 -> 2564949

SmallestFactor(n) == CHOOSE p \in 2..n : n % p = 0 /\ \A q \in 2..(p - 1) : n % q # 0

\* ln(n) * 10^6 for an integer n >= 1, additive over the prime factors of n.
RECURSIVE LnMicro(_)
LnMicro(n) ==
    IF n = 1 THEN 0
    ELSE LET p == SmallestFactor(n) IN LnPrimeMicro(p) + LnMicro(n \div p)

Micro == 1000 * 1000

----------------------------------------------------------------------------
(* vbm-mind.py *)

\* The columns cols of one row.
SelectCols(row, cols) == [c \in DOMAIN cols |-> row[cols[c]]]

\* dat[feature_cols]: the rows of one label restricted to the feature columns.
Features(rows, cols) == [i \in DOMAIN rows |-> SelectCols(PointTable[rows[i]], cols)]

\* The tree holds the points it was built over.
get_KDTree(x) == x

\* Squared Euclidean distance (p=2) of two points of equal dimension.
SqDist(p, q) == SumSeq([c \in DOMAIN p |-> (p[c] - q[c]) * (p[c] - q[c])])

RECURSIVE InsertSorted(_, _)
InsertSorted(v, s) ==
    IF s = <<>> THEN <<v>>
    ELSE IF v <= s[1] THEN <<v>> \o s
    ELSE <<s[1]>> \o InsertSorted(v, Tail(s))

RECURSIVE SortAsc(_)
SortAsc(s) == IF s = <<>> THEN <<>> ELSE InsertSorted(s[1], SortAsc(Tail(s)))

\* tree.query(point, k, eps=0.01, p=2)[0]: the squared distances of the k nearest
\* points of the tree, nearest first.  A tree of fewer than k points yields
\* fewer than k finite distances (scipy fills the rest with inf).  On the
\* grid of PointTable two different distances differ by more than the factor
\* 1+eps, so the approximate search returns the exact neighbours.
Query(tree, point, k) ==
    LET ds == SortAsc([j \in DOMAIN tree |-> SqDist(tree[j], point)])
    IN  SubSeq(ds, 1, IF Len(ds) < k THEN Len(ds) ELSE k)

\* Line 53: xtree.query(x, k=2)[0][:, 1], kept with the nearest distance: r[i]
\* is the second entry, inf when the tree holds fewer than two points.
RDist(x, xtree) == [i \in DOMAIN x |-> Query(xtree, x[i], 2)]

\* Line 54: ytree.query(x, k=1)[0].
SDist(x, ytree) == [i \in DOMAIN x |-> Query(ytree, x[i], 1)]

\* Lines 56-57: the ratios that survive, each as <<r^2, s^2>>: r and s both
\* nonzero (the where= mask, else the quotient is the 0 of out=) and the
\* quotient finite and nonzero (r and s both finite).
RECURSIVE RsRatio(_, _)
RsRatio(r, s) ==
    IF r = <<>> THEN <<>>
    ELSE (IF /\ Len(r[1]) = 2
             /\ r[1][2] # 0
             /\ Len(s[1]) = 1
             /\ s[1][1] # 0
          THEN << <<r[1][2], s[1][1]>> >>
          ELSE <<>>)
            \o RsRatio(Tail(r), Tail(s))

\* 2 * 10^6 * np.log(rs_ratio).sum().
RECURSIVE TwiceLogSum(_)
TwiceLogSum(rs_ratio) ==
    IF rs_ratio = <<>> THEN 0
    ELSE (LnMicro(rs_ratio[1][1]) - LnMicro(rs_ratio[1][2]))
            + TwiceLogSum(Tail(rs_ratio))

\* Line 62: kl = -np.log(rs_ratio).sum() * d / n + np.log(m / (n - 1.0)).
\* Reached only when a ratio survives, hence with n >= 2 and m >= 1 when
\* xtree and ytree are the trees of x and y.
RawKL(rs_ratio, d, n, m) ==
    Rat((0 - d) * TwiceLogSum(rs_ratio) + 2 * n * (LnMicro(m) - LnMicro(n - 1)),
        2 * n * Micro)

\* Clamp without the maximum: the raw estimate is returned as it is.
ClampMissing(kl) == kl

\* Line 63: np.maximum(kl, 0).
Clamp(kl) == IF IsNegative(kl) THEN Zero ELSE kl

\* Lines 46-63.
get_KL(x, y, xtree, ytree) ==
    LET n == Len(x)
        m == Len(y)
        rs_ratio == RsRatio(RDist(x, xtree), SDist(x, ytree))
    IN  IF Len(rs_ratio) = 0
        THEN Zero
        ELSE Clamp(RawKL(rs_ratio, Len(x[1]), n, m))

\* Similarity from one direction only: 1 / (1 + KLa).
SimilarityOneDirection(KLa, KLb) == Rat(KLa[2], KLa[2] + KLa[1])

\* Line 80: 1 / (1 + (KLa + KLb)).
Similarity(KLa, KLb) ==
    LET K == RatAdd(KLa, KLb)
    IN  Rat(K[2], K[2] + K[1])

\* Line 73: [(x, y) for x in region_list for y in region_list if x != y].
RECURSIVE PairsFrom(_, _, _)
PairsFrom(rl, i, j) ==
    IF i > Len(rl) THEN <<>>
    ELSE IF j > Len(rl) THEN PairsFrom(rl, i + 1, 1)
    ELSE (IF rl[i] # rl[j] THEN << <<rl[i], rl[j]>> >> ELSE <<>>)
            \o PairsFrom(rl, i, j + 1)

\* itertools.combinations(region_list, 2) in place of the list of line 73:
\* each unordered pair once.
RECURSIVE CombinationsFrom(_, _, _)
CombinationsFrom(rl, i, j) ==
    IF i > Len(rl) THEN <<>>
    ELSE IF j > Len(rl) THEN CombinationsFrom(rl, i + 1, i + 2)
    ELSE << <<rl[i], rl[j]>> >> \o CombinationsFrom(rl, i, j + 1)

PairListCombinations(rl) == CombinationsFrom(rl, 1, 2)

\* The list of line 73 without its filter x != y.
PairListUnfiltered(rl) ==
    [k \in 1..(Len(rl) * Len(rl)) |->
        <<rl[((k - 1) \div Len(rl)) + 1], rl[((k - 1) % Len(rl)) + 1]>>]

PairList(rl) == PairsFrom(rl, 1, 1)

\* The arguments of one call of calculate_mind_network.
MindInit ==
    /\ region_list \in IncreasingSeqs(Labels)
    /\ feature_cols \in FeatureColsChoices
    /\ data_df \in [Labels -> SortedSeqs(Len(PointTable), MaxRows)]
    /\ kdtrees = <<>>
    /\ mind = <<>>
    /\ pairs = <<>>
    /\ idx = 0
    /\ visited = <<>>
    /\ mpc = "start"

MindIdle ==
    /\ region_list = <<>>
    /\ feature_cols = <<>>
    /\ data_df = <<>>
    /\ kdtrees = <<>>
    /\ mind = <<>>
    /\ pairs = <<>>
    /\ idx = 0
    /\ visited = <<>>
    /\ mpc = "idle"

\* Lines 69-73: the zero matrix, the rows of the listed regions, one tree per
\* label that has rows (groupby yields no group for a label without rows), and
\* the list of pairs.
Build ==
    /\ mpc = "start"
    /\ mind' = [c \in Range(region_list) \X Range(region_list) |-> Zero]
    /\ data_df' = [l \in Labels |->
                        IF l \in Range(region_list) THEN data_df[l] ELSE <<>>]
    /\ kdtrees' = [l \in { k \in Labels : data_df'[k] # <<>> } |->
                        get_KDTree(Features(data_df'[l], feature_cols))]
    /\ pairs' = PairList(region_list)
    /\ idx' = 1
    /\ mpc' = "loop"
    /\ UNCHANGED <<region_list, feature_cols, visited>>
    /\ UNCHANGED <<uniVars, transVars>>

\* Lines 74-80, one iteration: both directed estimates and the write of the
\* cell (name_x, name_y).
PairWrite ==
    /\ mpc = "loop"
    /\ idx <= Len(pairs)
    /\ LET name_x == pairs[idx][1]
           name_y == pairs[idx][2]
       IN  /\ name_x \in DOMAIN kdtrees
           /\ name_y \in DOMAIN kdtrees
           /\ LET fx == Features(data_df[name_x], feature_cols)
                  fy == Features(data_df[name_y], feature_cols)
                  KLa == get_KL(fx, fy, kdtrees[name_x], kdtrees[name_y])
                  KLb == get_KL(fy, fx, kdtrees[name_y], kdtrees[name_x])
              IN  /\ mind' = [mind EXCEPT ![<<name_x, name_y>>] = Similarity(KLa, KLb)]
                  /\ visited' = Append(visited,
                        [x |-> name_x, y |-> name_y, KLa |-> KLa, KLb |-> KLb])
    /\ idx' = idx + 1
    /\ UNCHANGED <<region_list, feature_cols, data_df, kdtrees, pairs, mpc>>
    /\ UNCHANGED <<uniVars, transVars>>

\* Lines 76 and 79: kdtrees[name] of a label that has no tree raises KeyError,
\* which nothing catches: the call ends without returning a matrix.
PairKeyError ==
    /\ mpc = "loop"
    /\ idx <= Len(pairs)
    /\ \/ pairs[idx][1] \notin DOMAIN kdtrees
       \/ pairs[idx][2] \notin DOMAIN kdtrees
    /\ mpc' = "raised"
    /\ UNCHANGED <<region_list, feature_cols, data_df, kdtrees, mind, pairs, idx, visited>>
    /\ UNCHANGED <<uniVars, transVars>>

\* Line 82: return mind.
Return ==
    /\ mpc = "loop"
    /\ idx > Len(pairs)
    /\ mpc' = "returned"
    /\ UNCHANGED <<region_list, feature_cols, data_df, kdtrees, mind, pairs, idx, visited>>
    /\ UNCHANGED <<uniVars, transVars>>

MindNext == Build \/ PairWrite \/ PairKeyError \/ Return

----------------------------------------------------------------------------
(* unnamed/part_000 *)

\* Voxel values and bin edges are in units of 10^-3.  A histogram value is
\* <<n, d, e>>, the number (n/d) * 10^e; <<0, 0, 0>> is 0/0, numpy's nan.
Milli == 10 * 100

\* The voxel values an image may hold: background, label 1 exactly, label 1
\* inside the tolerance of line 54, and labels 2 and 3.
VoxelValues == {0, 1000, 1001, 2000, 3000}

\* The lut dict parse_freesurfer_lut returns, in file order: <<label, name>>.
lut == << <<1, "ctx-a">>, <<2, "ctx-b">>, <<3, "sub-c">> >>

\* Line 132: bins=100.
NumBins == 100

NaN == <<0, 0, 0>>

IsNaN(v) == v[2] = 0

\* A value that is a number and equals 0 (nan == 0 is False).
IsZero(v) == v[2] # 0 /\ v[1] = 0

\* Lines 82-83: 1e-10.
FloorValue == <<1, 1, 0 - 10>>

\* The images tried: multisets of at most MaxVoxels voxel values, as
\* non-decreasing sequences.
Images ==
    { s \in UNION { [1..len -> VoxelValues] : len \in 0..MaxVoxels } :
        \A i \in 1..(Len(s) - 1) : s[i] <= s[i + 1] }

\* Line 54: np.isclose(data, label_id, atol=1e-3), with numpy's rtol=1e-5:
\* |v - label_id| <= 1e-3 + 1e-5 * |label_id|.
IsClose(v, label_id) == 100 * Abs(v - label_id * Milli) <= 100 + label_id

\* Line 54: data[np.isclose(data, label_id, atol=1e-3)].
RegionVoxels(data, label_id) == SelectSeq(data, LAMBDA v : IsClose(v, label_id))

\* dict assignment d[name] = value on an insertion-ordered dict.
RECURSIVE DictSet(_, _, _)
DictSet(d, name, value) ==
    IF d = <<>> THEN << <<name, value>> >>
    ELSE IF d[1][1] = name THEN << <<name, value>> >> \o Tail(d)
    ELSE <<d[1]>> \o DictSet(Tail(d), name, value)

\* Lines 53-59 over lut entries k..Len(lut): <<distributions, big_dist>>.
RECURSIVE ExtractFrom(_, _, _, _)
ExtractFrom(data, k, distributions, pooled) ==
    IF k > Len(lut) THEN <<distributions, pooled>>
    ELSE LET region_voxels == RegionVoxels(data, lut[k][1])
         IN  IF Len(region_voxels) > 0
             THEN ExtractFrom(data, k + 1,
                              DictSet(distributions, lut[k][2], region_voxels),
                              pooled \o region_voxels)
             ELSE ExtractFrom(data, k + 1, distributions, pooled)

\* Lines 39-67: extract_voxel_distributions of an image that exists.
extract_voxel_distributions(data) == ExtractFrom(data, 1, <<>>, <<>>)

\* Lines 122-123: what extract_voxel_distributions returns for the freesurfer
\* image and for the vbm image of a subject, over the images tried.
Extractions == { extract_voxel_distributions(data) : data \in Images }

\* Line 125: {**cortical, **subcortical}.
RECURSIVE DictMerge(_, _)
DictMerge(d, e) ==
    IF e = <<>> THEN d ELSE DictMerge(DictSet(d, e[1][1], e[1][2]), Tail(e))

MinOf(s) == CHOOSE v \in Range(s) : \A w \in Range(s) : v <= w

MaxOf(s) == CHOOSE v \in Range(s) : \A w \in Range(s) : v >= w

\* Line 132: the edges np.histogram(big_dist, bins=100) returns, the NumBins+1
\* equally spaced values from first to last.  numpy takes the range of the
\* data, (0, 1) for no data, and widens an empty range by 0.5 on each side.
HistogramEdges(a, bins) ==
    LET lo == IF a = <<>> THEN 0 ELSE MinOf(a)
        hi == IF a = <<>> THEN Milli ELSE MaxOf(a)
    IN  IF lo = hi
        THEN [first |-> lo - (Milli \div 2), last |-> hi + (Milli \div 2), bins |-> bins]
        ELSE [first |-> lo, last |-> hi, bins |-> bins]

\* The bin of value v under the edges: bin i holds edges[i] <= v < edges[i+1],
\* the last bin also its right edge; 0 for a value outside the edges.
BinOf(v, edges) ==
    IF v < edges.first \/ v > edges.last THEN 0
    ELSE IF v = edges.last THEN edges.bins
    ELSE (((v - edges.first) * edges.bins) \div (edges.last - edges.first)) + 1

\* The density np.histogram computes over the edges: counts / bin width /
\* counts.sum().  With no value inside the edges that is 0/0 in every bin.
Density(dist, edges) ==
    LET inside == SelectSeq(dist, LAMBDA v : BinOf(v, edges) # 0)
        total == Len(inside)
    IN  [i \in 1..edges.bins |->
            LET count == Len(SelectSeq(inside, LAMBDA v : BinOf(v, edges) = i))
            IN  IF total = 0 THEN NaN
                ELSE Rat(count * edges.bins * Milli, total * (edges.last - edges.first))
                        \o <<0>>]

\* np.histogram(dist, bins=100, density=True) in place of lines 79-80: the
\* edges are taken from the range of dist itself.
HistogramOwnEdges(dist, edges) ==
    <<Density(dist, HistogramEdges(dist, edges.bins)), HistogramEdges(dist, edges.bins)>>

\* Lines 79-80: np.histogram(dist, bins=bin_edges_big, density=True), the pair
\* <<hist, bin_edges>>: given edges are returned as they are.
Histogram(dist, edges) == <<Density(dist, edges), edges>>

\* Lines 82-83: np.where(hist == 0, 1e-10, hist).
FloorZeros(hist) == [i \in DOMAIN hist |-> IF IsZero(hist[i]) THEN FloorValue ELSE hist[i]]

\* Line 85: scipy.stats.entropy(pk, qk) = sum(pk * log(pk / qk)) of the
\* normalised arguments: nan when an argument holds a nan, and otherwise the
\* divergence of pk relative to qk, kept as the term it is.
entropy(pk, qk) ==
    IF \E i \in DOMAIN pk : IsNaN(pk[i]) \/ IsNaN(qk[i])
    THEN [nan |-> TRUE, pk |-> <<>>, qk |-> <<>>]
    ELSE [nan |-> FALSE, pk |-> pk, qk |-> qk]

\* Every ordered pair of two different positions, in place of line 75.
Permutations2(names, i, j) ==
    LET n == Len(names)
        all == [k \in 1..(n * n) |-> <<((k - 1) \div n) + 1, ((k - 1) % n) + 1>>]
        kept == SelectSeq(all, LAMBDA q : q[1] # q[2])
    IN  [k \in DOMAIN kept |-> <<names[kept[k][1]], names[kept[k][2]]>>]

\* Line 75: itertools.combinations(region_names, 2), from positions i < j on.
RECURSIVE Combinations2(_, _, _)
Combinations2(names, i, j) ==
    IF i > Len(names) THEN <<>>
    ELSE IF j > Len(names) THEN Combinations2(names, i + 1, i + 2)
    ELSE << <<names[i], names[j]>> >> \o Combinations2(names, i, j + 1)

\* Line 74: list(distributions.keys()).
Keys(d) == [k \in DOMAIN d |-> d[k][1]]

\* distributions[name].
DictGet(d, name) == (CHOOSE e \in Range(d) : e[1] = name)[2]

UniIdle ==
    /\ caller = "none"
    /\ sidx = 0
    /\ all_distributions = <<>>
    /\ big_dist = <<>>
    /\ bin_edges_big = [first |-> 0, last |-> 0, bins |-> 0]
    /\ edges_computed = 0
    /\ region_pairs = <<>>
    /\ kidx = 0
    /\ kl_records = <<>>
    /\ upc = "idle"

\* main() at line 114, common_subjects holding NumSubjects subjects.
MainInit ==
    /\ caller = "main"
    /\ sidx = 1
    /\ all_distributions = <<>>
    /\ big_dist = <<>>
    /\ bin_edges_big = [first |-> 0, last |-> 0, bins |-> 0]
    /\ edges_computed = 0
    /\ region_pairs = <<>>
    /\ kidx = 0
    /\ kl_records = <<>>
    /\ upc = "subject"

\* Lines 118-120: a segmentation file of the subject is missing: continue.
SkipMissingSegmentation ==
    /\ upc = "subject"
    /\ sidx <= NumSubjects
    /\ sidx' = sidx + 1
    /\ UNCHANGED <<caller, all_distributions, big_dist, bin_edges_big, edges_computed,
                   region_pairs, kidx, kl_records, upc>>
    /\ UNCHANGED <<mindVars, transVars>>

\* Lines 122-126: both images are read and their distributions merged.  The
\* rows of an earlier subject stay in that subject's own directory; kl_records
\* and edges_computed start over for the directory of this one.
Extract ==
    /\ upc = "subject"
    /\ sidx <= NumSubjects
    /\ \E cortical \in Extractions, subcortical \in Extractions :
            /\ all_distributions' = DictMerge(cortical[1], subcortical[1])
            /\ big_dist' = cortical[2] \o subcortical[2]
    /\ edges_computed' = 0
    /\ kl_records' = <<>>
    /\ upc' = "extracted"
    /\ UNCHANGED <<caller, sidx, bin_edges_big, region_pairs, kidx>>
    /\ UNCHANGED <<mindVars, transVars>>

\* Lines 128-130: no distributions: continue.
SkipNoDistributions ==
    /\ upc = "extracted"
    /\ all_distributions = <<>>
    /\ sidx' = sidx + 1
    /\ upc' = "subject"
    /\ UNCHANGED <<caller, all_distributions, big_dist, bin_edges_big, edges_computed,
                   region_pairs, kidx, kl_records>>
    /\ UNCHANGED <<mindVars, transVars>>

\* Lines 132-133: the edges of the pooled values, then the call.
ComputeEdges ==
    /\ upc = "extracted"
    /\ all_distributions # <<>>
    /\ bin_edges_big' = HistogramEdges(big_dist, NumBins)
    /\ edges_computed' = edges_computed + 1
    /\ upc' = "kl_start"
    /\ UNCHANGED <<caller, sidx, all_distributions, big_dist, region_pairs, kidx, kl_records>>
    /\ UNCHANGED <<mindVars, transVars>>

\* Lines 71-75: compute_kl_divergence begins: the list of pairs.
StartKL ==
    /\ upc = "kl_start"
    /\ region_pairs' = Combinations2(Keys(all_distributions), 1, 2)
    /\ kidx' = 1
    /\ upc' = "kl_loop"
    /\ UNCHANGED <<caller, sidx, all_distributions, big_dist, bin_edges_big, edges_computed,
                   kl_records>>
    /\ UNCHANGED <<mindVars, transVars>>

\* Lines 76-90, one iteration: both histograms over bin_edges_big, the floor,
\* the divergence, and the row written.
PairKL ==
    /\ upc = "kl_loop"
    /\ kidx <= Len(region_pairs)
    /\ LET region1 == region_pairs[kidx][1]
           region2 == region_pairs[kidx][2]
           h1 == Histogram(DictGet(all_distributions, region1), bin_edges_big)
           h2 == Histogram(DictGet(all_distributions, region2), bin_edges_big)
           hist1 == FloorZeros(h1[1])
           hist2 == FloorZeros(h2[1])
       IN  kl_records' = Append(kl_records,
                [region1 |-> region1, region2 |-> region2,
                 kl_div |-> entropy(hist1, hist2),
                 hist1 |-> hist1, hist2 |-> hist2,
                 edges1 |-> h1[2], edges2 |-> h2[2]])
    /\ kidx' = kidx + 1
    /\ UNCHANGED <<caller, sidx, all_distributions, big_dist, bin_edges_big, edges_computed,
                   region_pairs, upc>>
    /\ UNCHANGED <<mindVars, transVars>>

\* compute_kl_divergence returns to main: the next subject.
ReturnToMain ==
    /\ upc = "kl_loop"
    /\ kidx > Len(region_pairs)
    /\ caller = "main"
    /\ sidx' = sidx + 1
    /\ upc' = "subject"
    /\ UNCHANGED <<caller, all_distributions, big_dist, bin_edges_big, edges_computed,
                   region_pairs, kidx, kl_records>>
    /\ UNCHANGED <<mindVars, transVars>>

\* Line 114: common_subjects is exhausted.
MainDone ==
    /\ upc = "subject"
    /\ sidx > NumSubjects
    /\ upc' = "done"
    /\ UNCHANGED <<caller, sidx, all_distributions, big_dist, bin_edges_big, edges_computed,
                   region_pairs, kidx, kl_records>>
    /\ UNCHANGED <<mindVars, transVars>>

MainNext ==
    \/ SkipMissingSegmentation
    \/ Extract
    \/ SkipNoDistributions
    \/ ComputeEdges
    \/ StartKL
    \/ PairKL
    \/ ReturnToMain
    \/ MainDone

\* A call of compute_kl_divergence from outside main(): two regions with any
\* samples, the empty one included, and the edges of any image.
DirectInit ==
    /\ caller = "direct"
    /\ sidx = 0
    /\ \E dist1 \in Images, dist2 \in Images :
            all_distributions = << <<lut[1][2], dist1>>, <<lut[2][2], dist2>> >>
    /\ big_dist = <<>>
    /\ bin_edges_big \in { HistogramEdges(a, NumBins) : a \in Images }
    /\ edges_computed = 0
    /\ region_pairs = <<>>
    /\ kidx = 0
    /\ kl_records = <<>>
    /\ upc = "kl_start"

\* compute_kl_divergence returns to its caller.
ReturnDirect ==
    /\ upc = "kl_loop"
    /\ kidx > Len(region_pairs)
    /\ caller = "direct"
    /\ upc' = "done"
    /\ UNCHANGED <<caller, sidx, all_distributions, big_dist, bin_edges_big, edges_computed,
                   region_pairs, kidx, kl_records>>
    /\ UNCHANGED <<mindVars, transVars>>

DirectNext == StartKL \/ PairKL \/ ReturnDirect

----------------------------------------------------------------------------
(* VBM-to-FreeSurfer-Transform.py *)

Entries == 1..NumMatching

TransIdle ==
    /\ cat12_exists = <<>>
    /\ fsdir_exists = <<>>
    /\ tidx = 0
    /\ tpc = "idle"
    /\ calls = <<>>
    /\ visits = <<>>
    /\ outcome = <<>>

\* process_subjects at line 43, with any files and directories on disk.
TransInit ==
    /\ cat12_exists \in [Entries -> BOOLEAN]
    /\ fsdir_exists \in [Entries -> BOOLEAN]
    /\ tidx = 1
    /\ tpc = "top"
    /\ calls = <<>>
    /\ visits = [i \in Entries |-> 0]
    /\ outcome = [i \in Entries |-> "pending"]

\* Where control goes when bbregister falls through to the next statement
\* instead of continuing with the next entry.
AfterBbregisterErrorFallThrough(i) == <<i, "vol2vol">>

\* Line 69: continue, after a CalledProcessError of bbregister.
AfterBbregisterError(i) == <<i + 1, "top">>

\* Lines 53-55: the input image is missing: continue.
FileNotFound ==
    /\ tpc = "top"
    /\ tidx <= NumMatching
    /\ ~cat12_exists[tidx]
    /\ visits' = [visits EXCEPT ![tidx] = @ + 1]
    /\ outcome' = [outcome EXCEPT ![tidx] = "file_not_found"]
    /\ tidx' = tidx + 1
    /\ UNCHANGED <<cat12_exists, fsdir_exists, tpc, calls>>
    /\ UNCHANGED <<mindVars, uniVars>>

\* Lines 57-59: the FreeSurfer directory of the subject is missing: continue.
DirectoryNotFound ==
    /\ tpc = "top"
    /\ tidx <= NumMatching
    /\ cat12_exists[tidx]
    /\ ~fsdir_exists[tidx]
    /\ visits' = [visits EXCEPT ![tidx] = @ + 1]
    /\ outcome' = [outcome EXCEPT ![tidx] = "directory_not_found"]
    /\ tidx' = tidx + 1
    /\ UNCHANGED <<cat12_exists, fsdir_exists, tpc, calls>>
    /\ UNCHANGED <<mindVars, uniVars>>

\* Lines 61-66: bbregister runs and exits with status 0.
BbregisterSucceeds ==
    /\ tpc = "top"
    /\ tidx <= NumMatching
    /\ cat12_exists[tidx]
    /\ fsdir_exists[tidx]
    /\ visits' = [visits EXCEPT ![tidx] = @ + 1]
    /\ calls' = Append(calls, [entry |-> tidx, command |-> "bbregister", ok |-> TRUE])
    /\ tpc' = "vol2vol"
    /\ UNCHANGED <<cat12_exists, fsdir_exists, tidx, outcome>>
    /\ UNCHANGED <<mindVars, uniVars>>

\* Lines 61-69: bbregister exits with a nonzero status (check=True raises
\* CalledProcessError): continue.
BbregisterFails ==
    /\ tpc = "top"
    /\ tidx <= NumMatching
    /\ cat12_exists[tidx]
    /\ fsdir_exists[tidx]
    /\ visits' = [visits EXCEPT ![tidx] = @ + 1]
    /\ calls' = Append(calls, [entry |-> tidx, command |-> "bbregister", ok |-> FALSE])
    /\ outcome' = [outcome EXCEPT ![tidx] = "bbregister_failed"]
    /\ tidx' = AfterBbregisterError(tidx)[1]
    /\ tpc' = AfterBbregisterError(tidx)[2]
    /\ UNCHANGED <<cat12_exists, fsdir_exists>>
    /\ UNCHANGED <<mindVars, uniVars>>

\* Lines 71-82: mri_vol2vol runs and exits with status 0.
Vol2volSucceeds ==
    /\ tpc = "vol2vol"
    /\ calls' = Append(calls, [entry |-> tidx, command |-> "mri_vol2vol", ok |-> TRUE])
    /\ outcome' = [outcome EXCEPT ![tidx] = "completed"]
    /\ tidx' = tidx + 1
    /\ tpc' = "top"
    /\ UNCHANGED <<cat12_exists, fsdir_exists, visits>>
    /\ UNCHANGED <<mindVars, uniVars>>

\* Lines 71-80: mri_vol2vol exits with a nonzero status: continue.
Vol2volFails ==
    /\ tpc = "vol2vol"
    /\ calls' = Append(calls, [entry |-> tidx, command |-> "mri_vol2vol", ok |-> FALSE])
    /\ outcome' = [outcome EXCEPT ![tidx] = "vol2vol_failed"]
    /\ tidx' = tidx + 1
    /\ tpc' = "top"
    /\ UNCHANGED <<cat12_exists, fsdir_exists, visits>>
    /\ UNCHANGED <<mindVars, uniVars>>

\* Line 43: matching_subjects is exhausted.
ProcessDone ==
    /\ tpc = "top"
    /\ tidx > NumMatching
    /\ tpc' = "done"
    /\ UNCHANGED <<cat12_exists, fsdir_exists, tidx, calls, visits, outcome>>
    /\ UNCHANGED <<mindVars, uniVars>>

TransNext ==
    \/ FileNotFound
    \/ DirectoryNotFound
    \/ BbregisterSucceeds
    \/ BbregisterFails
    \/ Vol2volSucceeds
    \/ Vol2volFails
    \/ ProcessDone

----------------------------------------------------------------------------
(* Specifications *)

Init == MindInit /\ UniIdle /\ TransIdle

Next == MindNext

\* calculate_mind_network of vbm-mind.py.
Spec == Init /\ [][Next]_vars

InitMain == MindIdle /\ MainInit /\ TransIdle

\* main() of unnamed/part_000.
SpecMain == InitMain /\ [][MainNext]_vars

InitDirect == MindIdle /\ DirectInit /\ TransIdle

\* compute_kl_divergence of unnamed/part_000, called on its own.
SpecComputeKL == InitDirect /\ [][DirectNext]_vars

InitTransform == MindIdle /\ UniIdle /\ TransInit

\* process_subjects of VBM-to-FreeSurfer-Transform.py.
SpecTransform == InitTransform /\ [][TransNext]_vars

----------------------------------------------------------------------------
(* Claims about vbm-mind.py *)

One == Rat(1, 1)

Listed == Range(region_list)

\* The number of completed loop bodies whose pair (name_x, name_y) is in P.
VisitCount(P) == Cardinality({ k \in DOMAIN visited : <<visited[k].x, visited[k].y>> \in P })

\* The arguments line 74 (forward) and line 77 (backward) pass to get_KL.
RatiosOf(a, b) ==
    RsRatio(RDist(Features(data_df[a], feature_cols), kdtrees[a]),
            SDist(Features(data_df[a], feature_cols), kdtrees[b]))

RawOf(a, b) == RawKL(RatiosOf(a, b), Len(feature_cols), Len(data_df[a]), Len(data_df[b]))

\* C1: after calculate_mind_network returns, the entries (x,y) and (y,x) of
\* the matrix are equal for every two distinct regions x, y of region_list.
C1_Symmetric ==
    mpc = "returned" =>
        \A x, y \in Listed : x # y => mind[<<x, y>>] = mind[<<y, x>>]

\* A returned matrix with an entry strictly between 0 and 1 that comes from two
\* different directed estimates.
C1_Witness ==
    /\ mpc = "returned"
    /\ \E k \in DOMAIN visited :
        /\ visited[k].KLa # visited[k].KLb
        /\ mind[<<visited[k].x, visited[k].y>>] \notin {Zero, One}
        /\ mind[<<visited[k].y, visited[k].x>>] = mind[<<visited[k].x, visited[k].y>>]

\* C2 as stated: every unordered pair {x, y} of distinct regions is visited
\* exactly once (one evaluation of KLa/KLb and one write per unordered pair).
C2_OncePerUnorderedPair ==
    mpc = "returned" =>
        \A x, y \in Listed : x # y => VisitCount({<<x, y>>, <<y, x>>}) = 1

\* C2 as amended: every ordered pair (x, y) of distinct regions is visited
\* exactly once, so every unordered pair is visited twice, once in each order,
\* and no region is paired with itself.
C2_OncePerOrderedPair ==
    mpc = "returned" =>
        /\ \A x, y \in Listed : x # y =>
                /\ VisitCount({<<x, y>>}) = 1
                /\ VisitCount({<<x, y>>, <<y, x>>}) = 2
        /\ \A x \in Listed : VisitCount({<<x, x>>}) = 0
        /\ Len(visited) = Len(region_list) * (Len(region_list) - 1)

\* A returned call over three regions: six loop bodies.
C2_Witness ==
    /\ mpc = "returned"
    /\ Len(region_list) = 3
    /\ Len(visited) = 6

\* C3: every value get_KL returns is >= 0: it is 0 when no ratio survives the
\* filter, and otherwise the raw estimate of line 62 clamped below at 0.
C3_NonNegative ==
    \A k \in DOMAIN visited :
        LET a == visited[k].x
            b == visited[k].y
            d == Len(feature_cols)
            forward == RatiosOf(a, b)
            backward == RatiosOf(b, a)
            rawa == RawKL(forward, d, Len(data_df[a]), Len(data_df[b]))
            rawb == RawKL(backward, d, Len(data_df[b]), Len(data_df[a]))
        IN  /\ ~IsNegative(visited[k].KLa)
            /\ ~IsNegative(visited[k].KLb)
            /\ visited[k].KLa = (IF forward = <<>> THEN Zero
                                 ELSE IF IsNegative(rawa) THEN Zero ELSE rawa)
            /\ visited[k].KLb = (IF backward = <<>> THEN Zero
                                 ELSE IF IsNegative(rawb) THEN Zero ELSE rawb)

\* A call that met all three cases: a negative raw estimate returned as 0, no
\* surviving ratio, and a positive estimate returned unchanged.
C3_Witness ==
    \E k, j, i \in DOMAIN visited :
        /\ RatiosOf(visited[k].x, visited[k].y) # <<>>
        /\ IsNegative(RawOf(visited[k].x, visited[k].y))
        /\ visited[k].KLa = Zero
        /\ RatiosOf(visited[j].x, visited[j].y) = <<>>
        /\ visited[j].KLa = Zero
        /\ IsPositive(visited[i].KLa)
        /\ visited[i].KLa = RawOf(visited[i].x, visited[i].y)

\* C4 as stated: a region of region_list with no row or with exactly one row
\* does not make calculate_mind_network raise.
C4_DegenerateDoesNotRaise ==
    (\E x \in Listed : Len(data_df[x]) <= 1) => mpc # "raised"

C8_DiagonalUntouched ==
    mpc \in {"loop", "returned"} =>
        /\ \A x \in Listed : mind[<<x, x>>] = Zero
        /\ \A k \in DOMAIN visited : visited[k].x # visited[k].y

\* A returned matrix over three regions, every off-diagonal cell written.
C8_Witness ==
    /\ mpc = "returned"
    /\ Len(region_list) = 3
    /\ \A x, y \in Listed : (x = y) <=> (mind[<<x, y>>] = Zero)

----------------------------------------------------------------------------
(* Claims about unnamed/part_000 *)

\* compute_kl_divergence has run through all its pairs.
KLFinished == upc = "kl_loop" /\ kidx > Len(region_pairs)

RegionNames == Range(Keys(all_distributions))

\* The number of rows written whose two region identifiers are in P.
RowCount(P) ==
    Cardinality({ k \in DOMAIN kl_records :
                    <<kl_records[k].region1, kl_records[k].region2>> \in P })

\* C5: for a subject the bin edges are computed exactly once, from the pooled
\* samples and before any pair is compared, and both histograms of every pair
\* use that same edge sequence; the edges are not recomputed or changed
\* between pairs.
C5_EdgesOncePerSubject ==
    /\ upc \in {"kl_start", "kl_loop"} =>
        /\ edges_computed = 1
        /\ bin_edges_big.first = (IF Len(big_dist) > 1 /\ MinOf(big_dist) # MaxOf(big_dist)
                                  THEN MinOf(big_dist) ELSE MinOf(big_dist) - (Milli \div 2))
        /\ bin_edges_big.last = (IF Len(big_dist) > 1 /\ MinOf(big_dist) # MaxOf(big_dist)
                                 THEN MaxOf(big_dist) ELSE MaxOf(big_dist) + (Milli \div 2))
        /\ bin_edges_big.bins = NumBins
    /\ upc \in {"subject", "extracted"} => edges_computed <= 1
    /\ kl_records # <<>> => edges_computed = 1
    /\ upc # "extracted" =>
        \A k \in DOMAIN kl_records :
            /\ kl_records[k].edges1 = bin_edges_big
            /\ kl_records[k].edges2 = bin_edges_big

\* The second subject with three regions of different value ranges, all three
\* pairs compared.
C5_Witness ==
    /\ sidx = 2
    /\ KLFinished
    /\ Len(kl_records) = 3
    /\ bin_edges_big.first = 1000
    /\ bin_edges_big.last = 3000

\* C6 as stated: an empty sample yields a histogram whose every bin holds the
\* floor 1e-10, and the divergence computed from it is a number, not nan.
C6_EmptySampleFloored ==
    \A k \in DOMAIN kl_records :
        /\ DictGet(all_distributions, kl_records[k].region1) = <<>> =>
            /\ \A i \in DOMAIN kl_records[k].hist1 : kl_records[k].hist1[i] = FloorValue
            /\ ~kl_records[k].kl_div.nan
        /\ DictGet(all_distributions, kl_records[k].region2) = <<>> =>
            /\ \A i \in DOMAIN kl_records[k].hist2 : kl_records[k].hist2[i] = FloorValue
            /\ ~kl_records[k].kl_div.nan

----------------------------------------------------------------------------
(* Claims about VBM-to-FreeSurfer-Transform.py *)

\* The positions in calls of the calls of a command for an entry.
CallsOf(i, command) ==
    { k \in DOMAIN calls : calls[k].entry = i /\ calls[k].command = command }

\* C10: for each entry of matching_subjects the steps run in a fixed order and
\* a failure is confined to that entry: mri_vol2vol runs only after bbregister
\* succeeded for the same entry and only if the input image and the FreeSurfer
\* directory exist; a missing image, a missing directory, or a failed
\* bbregister or mri_vol2vol ends that entry only, and every entry is
\* processed exactly once.
C10_OrderedAndConfined ==
    /\ \A k \in DOMAIN calls :
        /\ cat12_exists[calls[k].entry]
        /\ fsdir_exists[calls[k].entry]
        /\ calls[k].command = "mri_vol2vol" =>
            /\ k > 1
            /\ calls[k - 1] = [entry |-> calls[k].entry, command |-> "bbregister", ok |-> TRUE]
    /\ tpc # "idle" =>
        \A i \in Entries :
            /\ visits[i] = (IF i < tidx \/ (i = tidx /\ tpc = "vol2vol") THEN 1 ELSE 0)
            /\ Cardinality(CallsOf(i, "bbregister")) <= 1
            /\ Cardinality(CallsOf(i, "mri_vol2vol")) <= 1
            /\ outcome[i] \in {"file_not_found", "directory_not_found", "bbregister_failed"} =>
                    CallsOf(i, "mri_vol2vol") = {}
            /\ outcome[i] \in {"file_not_found", "directory_not_found"} =>
                    CallsOf(i, "bbregister") = {}
            /\ i < tidx => outcome[i] # "pending"
            /\ i > tidx => outcome[i] = "pending" /\ CallsOf(i, "bbregister") = {}
    /\ tpc = "done" => \A i \in Entries : visits[i] = 1 /\ outcome[i] # "pending"

\* The loop ended after a failed bbregister for the first entry and a completed
\* transformation of the second.
C10_Witness ==
    /\ tpc = "done"
    /\ outcome[1] = "bbregister_failed"
    /\ outcome[NumMatching] = "completed"
    /\ Len(calls) >= 3

====
